---- MODULE Spec2Model ----
(***************************************************************************)
(* The Yelay action provider of agentkit: its handlers as state machines   *)
(* over their suspension points (await), with the wallet and the backend   *)
(* as a nondeterministic environment.                                      *)
(*                                                                         *)
(* The repository holds several revisions of the provider.  rev = "config" *)
(* is the provider constructed with (chainId, isTest) that resolves its    *)
(* configuration with getEnvironment; rev = "wallet" is the provider       *)
(* without constructor arguments that takes the chain from the wallet;     *)
(* rev = "list" is the earlier constructed provider whose getVaults        *)
(* returns a list of strings, of which getVaults, supportsNetwork and the  *)
(* constructor are modelled.                                               *)
(* Amount texts are sequences of one-character strings; a bigint is the    *)
(* canonical decimal digit sequence of a non-negative integer.             *)
(***************************************************************************)
EXTENDS Integers, Sequences, FiniteSets, TLC

\* ------------------------------------------------------------------ bounds
MaxLen == 3
MaxDecimals == 1
MaxEntries == 2
MaxVaults == 2
MaxApys == 2

\* ------------------------------------------------------- program constants
RETAIL_POOL_ID == 10
MOCK_DECIMALS == 18

SUPPORTED_NETWORKS == {"1", "146", "8453"}

\* ------------------------------------------------------------------- texts
Digits == {"0", "1", "5"}
Chars == Digits \cup {"."}

DigitVal(c) ==
  CASE c = "0" -> 0 [] c = "1" -> 1 [] c = "2" -> 2 [] c = "3" -> 3
    [] c = "4" -> 4 [] c = "5" -> 5 [] c = "6" -> 6 [] c = "7" -> 7
    [] c = "8" -> 8 [] c = "9" -> 9

DigitChar(n) ==
  CASE n = 0 -> "0" [] n = 1 -> "1" [] n = 2 -> "2" [] n = 3 -> "3"
    [] n = 4 -> "4" [] n = 5 -> "5" [] n = 6 -> "6" [] n = 7 -> "7"
    [] n = 8 -> "8" [] n = 9 -> "9"

Texts == UNION {[1..n -> Chars] : n \in 1..MaxLen}

IsDigits(s) == \A i \in 1..Len(s) : s[i] \in Digits

DotAt(s) ==
  IF \E i \in 1..Len(s) : s[i] = "."
  THEN CHOOSE i \in 1..Len(s) : s[i] = "." /\ \A j \in 1..(i - 1) : s[j] # "."
  ELSE 0

\* /^\d+(\.\d+)?$/
DecimalRegex(s) ==
  \/ Len(s) >= 1 /\ IsDigits(s)
  \/ /\ DotAt(s) > 1
     /\ DotAt(s) < Len(s)
     /\ IsDigits(SubSeq(s, 1, DotAt(s) - 1))
     /\ IsDigits(SubSeq(s, DotAt(s) + 1, Len(s)))

\* /^\d+$/
WholeRegex(s) == Len(s) >= 1 /\ IsDigits(s)

RECURSIVE StripLeadingZeros(_)
StripLeadingZeros(s) ==
  IF Len(s) = 0 THEN <<"0">>
  ELSE IF Len(s) > 1 /\ s[1] = "0" THEN StripLeadingZeros(Tail(s))
  ELSE s

RECURSIVE StripTrailingZeros(_)
StripTrailingZeros(s) ==
  IF Len(s) > 0 /\ s[Len(s)] = "0"
  THEN StripTrailingZeros(SubSeq(s, 1, Len(s) - 1))
  ELSE s

Zeros(n) == [i \in 1..n |-> "0"]

\* BigInt(string): throws a SyntaxError unless the text is an integer
\* literal; the value is kept as its canonical digit sequence.
BigInt(s) ==
  IF IsDigits(s)
  THEN [ok |-> TRUE, v |-> StripLeadingZeros(s)]
  ELSE [ok |-> FALSE, v |-> <<"0">>]

\* bigint + 1n on canonical digit sequences
RECURSIVE Inc(_)
Inc(s) ==
  IF Len(s) = 0 THEN <<"1">>
  ELSE IF DigitVal(s[Len(s)]) < 9
       THEN Append(SubSeq(s, 1, Len(s) - 1), DigitChar(DigitVal(s[Len(s)]) + 1))
       ELSE Append(Inc(SubSeq(s, 1, Len(s) - 1)), "0")

\* the numeric value of a digit sequence (for values that fit an integer)
RECURSIVE Val(_)
Val(s) ==
  IF Len(s) = 0 THEN 0
  ELSE 10 * Val(SubSeq(s, 1, Len(s) - 1)) + DigitVal(s[Len(s)])

RECURSIVE Pow10(_)
Pow10(n) == IF n = 0 THEN 1 ELSE 10 * Pow10(n - 1)

\* assets < 0 in place of assets <= 0
NonPositiveStrict(b) == FALSE

\* assets <= 0 on a bigint that carries no sign
NonPositive(b) == b = <<"0">>

PadStart(s, n) == IF Len(s) >= n THEN s ELSE Zeros(n - Len(s)) \o s

\* viem parseUnits(value, decimals): split at the point, drop trailing
\* zeros of the fraction, round a fraction longer than decimals, pad a
\* shorter one, and read integer ++ fraction as a bigint.
parseUnitsRound(integer, fraction, decimals) ==
  LET left == SubSeq(fraction, 1, decimals - 1)
      unit == DigitVal(fraction[decimals])
      right == SubSeq(fraction, decimals + 1, Len(fraction))
      rounded == unit + (IF DigitVal(right[1]) >= 5 THEN 1 ELSE 0)
      f1 == IF rounded > 9
            THEN PadStart(Append(Inc(StripLeadingZeros(left)), "0"), Len(left) + 1)
            ELSE Append(left, DigitChar(rounded))
      carry == Len(f1) > decimals
      f2 == IF carry THEN Tail(f1) ELSE f1
      int2 == IF carry THEN Inc(StripLeadingZeros(integer)) ELSE integer
  IN  StripLeadingZeros(int2 \o SubSeq(f2, 1, decimals))

parseUnitsNoScale(value, decimals) == StripLeadingZeros(value)

parseUnits(value, decimals) ==
  LET dot == DotAt(value)
      integer == IF dot = 0 THEN value ELSE SubSeq(value, 1, dot - 1)
      frac0 == IF dot = 0 THEN <<"0">> ELSE SubSeq(value, dot + 1, Len(value))
      fraction == StripTrailingZeros(frac0)
  IN  IF decimals = 0
      THEN IF Len(fraction) > 0 /\ DigitVal(fraction[1]) >= 5
           THEN Inc(StripLeadingZeros(integer))
           ELSE StripLeadingZeros(integer)
      ELSE IF Len(fraction) > decimals
      THEN parseUnitsRound(integer, fraction, decimals)
      ELSE StripLeadingZeros(integer \o fraction \o Zeros(decimals - Len(fraction)))


\* ------------------------------------------------------------ environment
VaultAddrs == {"0xVaultA", "0xVaultB"}
WalletAddress == "0xUser"
TxHashes == {"0xabcdef1234567890", "0x5555"}
Receipts == {[status |-> s, blockNumber |-> 1234567] : s \in {0, 1}}
Rejections == {[name |-> "Error", message |-> m] :
                 m \in {"network error", "execution reverted"}}
DecimalsRead == (0..MaxDecimals) \cup {MOCK_DECIMALS}
WalletChains == {"8453", "10"}

\* `${error}` of an Error object
String(error) == <<error.name, ": ", error.message>>

JSONstringify(receipt) ==
  [json |-> <<"status", receipt.status, "blockNumber", receipt.blockNumber>>]

\* ------------------------------------------------ configuration resolver
NoConfig == [backendUrl |-> "", VaultWrapper |-> "", YieldExtractor |-> ""]

getEnvironmentDefault(id, testing) ==
  [ok |-> TRUE, error |-> <<>>,
   config |-> [backendUrl |-> "https://lite.api.yelay.io/v2",
               VaultWrapper |-> "0xdccf337ea77b687a4daca5586351b08f8927c825",
               YieldExtractor |-> "0x4d6a89dc55d8bacc0cbc3824bd7e44fa051c3958"]]

getEnvironmentChainFirst(id, testing) ==
  IF id \notin {1, 146, 8453}
  THEN [ok |-> FALSE, error |-> <<"Chain ", id, " is not supported">>,
        config |-> NoConfig]
  ELSE IF testing /\ id # 8453
  THEN [ok |-> FALSE, error |-> <<"Test environment is only supported for Base">>,
        config |-> NoConfig]
  ELSE [ok |-> TRUE, error |-> <<>>,
        config |->
          [backendUrl |-> IF testing THEN "https://lite.dev.yelay.io/v2"
                          ELSE "https://lite.api.yelay.io/v2",
           VaultWrapper |->
             CASE id = 1 -> "0xf65d02700915259602D9105b66401513D1CB61ff"
               [] id = 146 -> "0x0872e8391662D4e53D6649c8dE5d4bF581Bd778C"
               [] testing -> "0xE252b5c05a18140F15E1941dD2Df8a95bDa8A20b"
               [] OTHER -> "0xdccf337ea77b687a4daca5586351b08f8927c825",
           YieldExtractor |->
             CASE id = 1 -> "0x226239384EB7d78Cdf279BA6Fb458E2A4945E275"
               [] id = 146 -> "0xB84B621D3da3E5e47A1927883C685455Ad731D7C"
               [] testing -> "0xf3b5e160898cfd8b89476e77887050abb377c277"
               [] OTHER -> "0x4d6a89dc55d8bacc0cbc3824bd7e44fa051c3958"]]

getEnvironment(id, testing) ==
  IF id # 8453 /\ testing
  THEN [ok |-> FALSE, error |-> <<"Test environment is only supported for Base">>,
        config |-> NoConfig]
  ELSE IF id = 8453
  THEN IF testing
       THEN [ok |-> TRUE, error |-> <<>>,
             config |-> [backendUrl |-> "https://lite.dev.yelay.io/v2",
                         VaultWrapper |-> "0xE252b5c05a18140F15E1941dD2Df8a95bDa8A20b",
                         YieldExtractor |-> "0xf3b5e160898cfd8b89476e77887050abb377c277"]]
       ELSE [ok |-> TRUE, error |-> <<>>,
             config |-> [backendUrl |-> "https://lite.api.yelay.io/v2",
                         VaultWrapper |-> "0xdccf337ea77b687a4daca5586351b08f8927c825",
                         YieldExtractor |-> "0x4d6a89dc55d8bacc0cbc3824bd7e44fa051c3958"]]
  ELSE IF id = 1
  THEN [ok |-> TRUE, error |-> <<>>,
        config |-> [backendUrl |-> "https://lite.api.yelay.io/v2",
                    VaultWrapper |-> "0xf65d02700915259602D9105b66401513D1CB61ff",
                    YieldExtractor |-> "0x226239384EB7d78Cdf279BA6Fb458E2A4945E275"]]
  ELSE IF id = 146
  THEN [ok |-> TRUE, error |-> <<>>,
        config |-> [backendUrl |-> "https://lite.api.yelay.io/v2",
                    VaultWrapper |-> "0x0872e8391662D4e53D6649c8dE5d4bF581Bd778C",
                    YieldExtractor |-> "0xB84B621D3da3E5e47A1927883C685455Ad731D7C"]]
  ELSE [ok |-> FALSE, error |-> <<"Chain ", id, " is not supported">>,
        config |-> NoConfig]

ChainIds == {1, 146, 8453}

\* the (chainId, isTest) pairs the constructor accepts
Constructible ==
  {p \in ChainIds \X BOOLEAN : getEnvironment(p[1], p[2]).ok}

\* ------------------------------------------------------------------ state
VARIABLES rev, chainId, isTest, config, walletChainId,
          pc, action, args, locals, calls, outcomes, result

provider == <<rev, chainId, isTest, config, walletChainId>>
vars == <<rev, chainId, isTest, config, walletChainId,
          pc, action, args, locals, calls, outcomes, result>>

NoBody == [array |-> FALSE, items |-> <<>>]
NoNetwork == [protocolFamily |-> "", chainId |-> <<>>]
NoArgs ==
  [assets |-> <<>>, receiver |-> "", vaultAddress |-> "",
   network |-> NoNetwork, chainId |-> 0, testing |-> FALSE]
NoLocals ==
  [decimals |-> -1, atomicAssets |-> <<>>, txHash |-> "",
   responseOk |-> FALSE, decoded |-> FALSE, claimRequests |-> NoBody,
   vaultsResponse |-> <<>>, vaultAPYsResponse |-> <<>>,
   vaults |-> <<>>, vaultAPYs |-> <<>>, balance |-> <<>>]
Pending == [kind |-> "pending"]

Returned(msg) == [kind |-> "returned", msg |-> msg]
Thrown(error) == [kind |-> "thrown", error |-> error]

\* ---------------------------------------------------------- call records
ReadContractCall(address, functionName, fargs) ==
  [fn |-> "readContract", address |-> address,
   functionName |-> functionName, args |-> fargs]
SendTransactionCall(to, data) ==
  [fn |-> "sendTransaction", to |-> to, data |-> data]
WaitForTransactionReceiptCall(hash) ==
  [fn |-> "waitForTransactionReceipt", hash |-> hash]
FetchCall(base, path, query) ==
  [fn |-> "fetch", base |-> base, path |-> path, query |-> query]
JsonCall == [fn |-> "json"]

encodeFunctionData(functionName, fargs) ==
  [functionName |-> functionName, args |-> fargs]

Init ==
  /\ rev \in {"config", "wallet", "list"}
  /\ walletChainId \in WalletChains
  /\ IF rev \in {"config", "list"}
     THEN \E p \in Constructible :
            /\ chainId = p[1]
            /\ isTest = p[2]
            /\ config = getEnvironment(p[1], p[2]).config
     ELSE chainId = 0 /\ isTest = FALSE /\ config = NoConfig
  /\ pc = "idle"
  /\ action = "none"
  /\ args = NoArgs
  /\ locals = NoLocals
  /\ calls = <<>>
  /\ outcomes = <<>>
  /\ result = Pending

FinishBlocked(r) ==
  /\ pc' = "blocked"
  /\ result' = result
  /\ calls' = calls

\* the handler ends: nothing more is awaited
Finish(r) ==
  /\ pc' = "done"
  /\ result' = r
  /\ calls' = calls

AwaitTwice(label, call) ==
  /\ pc' = label
  /\ calls' = calls \o <<call, call>>
  /\ result' = result

\* the handler suspends on one more external call
Await(label, call) ==
  /\ pc' = label
  /\ calls' = Append(calls, call)
  /\ result' = result

AwaitAllSequential(label, cs) ==
  /\ pc' = label
  /\ calls' = Append(calls, cs[1])
  /\ result' = result

\* the handler suspends on several calls started together (Promise.all)
AwaitAll(label, cs) ==
  /\ pc' = label
  /\ calls' = calls \o cs
  /\ result' = result

\* the awaited call settles: the environment rejects it or fulfils it
Rejects(error) ==
  outcomes' = Append(outcomes, [kind |-> "rejected", error |-> error])
Fulfils(value) ==
  outcomes' = Append(outcomes, [kind |-> "resolved", value |-> value])

\* one of several calls in flight settles: the outcome names its call
RejectsCall(k, error) ==
  outcomes' = Append(outcomes, [kind |-> "rejected", error |-> error, call |-> k])
FulfilsCall(k, value) ==
  outcomes' = Append(outcomes, [kind |-> "resolved", value |-> value, call |-> k])


\* ------------------------------------------------ inputs and backend data
\* YelayDepositSchema.assets and YelayRedeemSchema.assets
DepositAssets == {t \in Texts : DecimalRegex(t)}
RedeemAssets == {t \in Texts : WholeRegex(t)}

SyntaxError == [name |-> "SyntaxError", message |-> "Cannot convert to a BigInt"]
TypeError == [name |-> "TypeError", message |-> "not a function or undefined"]

\* bodies of GET /vaults: an array of vault records, or some other JSON value
VaultDecimals == {MaxDecimals, MOCK_DECIMALS}
VaultRecords ==
  {[address |-> a, decimals |-> d, underlying |-> "0xToken"] :
     a \in VaultAddrs, d \in VaultDecimals}
VaultBodies ==
  {[array |-> TRUE, items |-> l] :
     l \in UNION {[1..n -> VaultRecords] : n \in 0..MaxVaults}} \cup {NoBody}

\* vaults.find(vault => vault.address === args.receiver)
findVault(vaults, receiver) ==
  IF \E i \in 1..Len(vaults) : vaults[i].address = receiver
  THEN <<vaults[CHOOSE i \in 1..Len(vaults) :
                  /\ vaults[i].address = receiver
                  /\ \A j \in 1..(i - 1) : vaults[j].address # receiver]>>
  ELSE <<>>

\* constants of the wallet-chain revision
YELAY_BACKEND_URL == "https://lite.api.yelay.io/v2"
CONTRACTS_BY_CHAIN ==
  [c \in SUPPORTED_NETWORKS |->
     getEnvironment(CASE c = "1" -> 1 [] c = "146" -> 146 [] c = "8453" -> 8453,
                    FALSE).config]

\* ---------------------------------------------------------------- deposit
ValidationError == [tag |-> "Error: Assets amount must be greater than 0"]
VaultNotFound == [tag |-> "Error: Vault not found"]

depositCatch(error) ==
  Returned([tag |-> "Error depositing to Yelay Vault: ", cause |-> String(error)])

depositData(atomicAssets, receiver) ==
  encodeFunctionData("deposit", <<atomicAssets, RETAIL_POOL_ID, receiver>>)

depositMessage(assets, receiver, txHash, receipt) ==
  [tag |-> "Deposited", assets |-> assets, vault |-> receiver,
   txHash |-> txHash, receipt |-> JSONstringify(receipt)]

\* config revision: entry of deposit up to the decimals read
deposit ==
  /\ rev = "config"
  /\ pc = "idle"
  /\ \E a \in DepositAssets, r \in VaultAddrs :
       /\ action' = "deposit"
       /\ args' = [NoArgs EXCEPT !.assets = a, !.receiver = r]
       /\ IF ~BigInt(a).ok
          THEN Finish(Thrown(SyntaxError))
          ELSE IF NonPositive(BigInt(a).v)
          THEN Finish(Returned(ValidationError))
          ELSE Await("depositRead",
                     ReadContractCall(config.VaultWrapper, "decimals", <<>>))
  /\ UNCHANGED <<provider, locals, outcomes>>

\* config revision: the decimals read settles; scale, encode and send
depositRead ==
  /\ pc = "depositRead"
  /\ \/ \E e \in Rejections :
          /\ Rejects(e)
          /\ Finish(depositCatch(e))
          /\ UNCHANGED locals
     \/ \E d \in DecimalsRead :
          LET atomicAssets == parseUnits(args.assets, d)
          IN  /\ Fulfils(d)
              /\ locals' = [locals EXCEPT !.decimals = d,
                                          !.atomicAssets = atomicAssets]
              /\ Await("depositSend",
                       SendTransactionCall(config.VaultWrapper,
                                           depositData(atomicAssets, args.receiver)))
  /\ UNCHANGED <<provider, action, args>>

\* wallet-chain revision: entry of deposit up to the vault-list fetch
wDeposit ==
  /\ rev = "wallet"
  /\ pc = "idle"
  /\ \E a \in DepositAssets, r \in VaultAddrs :
       /\ action' = "deposit"
       /\ args' = [NoArgs EXCEPT !.assets = a, !.receiver = r]
       /\ IF ~BigInt(a).ok
          THEN Finish(Thrown(SyntaxError))
          ELSE IF NonPositive(BigInt(a).v)
          THEN Finish(Returned(ValidationError))
          ELSE Await("wDepositFetch",
                     FetchCall(YELAY_BACKEND_URL, "/vaults",
                               [chainId |-> walletChainId]))
  /\ UNCHANGED <<provider, locals, outcomes>>

\* wallet-chain revision: the fetch settles; the status is not inspected
wDepositFetch ==
  /\ pc = "wDepositFetch"
  /\ \/ \E e \in Rejections :
          /\ Rejects(e)
          /\ Finish(depositCatch(e))
          /\ UNCHANGED locals
     \/ \E ok \in BOOLEAN :
          /\ Fulfils([ok |-> ok])
          /\ locals' = [locals EXCEPT !.responseOk = ok]
          /\ Await("wDepositJson", JsonCall)
  /\ UNCHANGED <<provider, action, args>>

\* wallet-chain revision: the body decodes; find the vault, scale, approve
wDepositJson ==
  /\ pc = "wDepositJson"
  /\ \/ \E e \in Rejections :
          /\ Rejects(e)
          /\ Finish(depositCatch(e))
          /\ UNCHANGED locals
     \/ \E body \in VaultBodies :
          /\ Fulfils(body)
          /\ IF ~body.array
             THEN Finish(depositCatch(TypeError)) /\ UNCHANGED locals
             ELSE IF findVault(body.items, args.receiver) = <<>>
             THEN Finish(Returned(VaultNotFound)) /\ UNCHANGED locals
             ELSE LET vault == findVault(body.items, args.receiver)[1]
                      atomicAssets == parseUnits(args.assets, vault.decimals)
                  IN  /\ locals' = [locals EXCEPT !.decoded = TRUE,
                                                  !.decimals = vault.decimals,
                                                  !.atomicAssets = atomicAssets]
                      /\ Await("wDepositApprove",
                               [fn |-> "approve", token |-> vault.underlying,
                                spender |-> args.receiver, amount |-> atomicAssets])
  /\ UNCHANGED <<provider, action, args>>

\* wallet-chain revision: approve settles; encode and send to the receiver
wDepositApprove ==
  /\ pc = "wDepositApprove"
  /\ \/ \E e \in Rejections :
          /\ Rejects(e)
          /\ Finish(depositCatch(e))
     \/ /\ Fulfils("approved")
        /\ Await("depositSend",
                 SendTransactionCall(args.receiver,
                                     depositData(locals.atomicAssets, args.receiver)))
  /\ UNCHANGED <<provider, action, args, locals>>

\* both revisions: sendTransaction settles; wait for the receipt of its hash
depositSend ==
  /\ pc = "depositSend"
  /\ \/ \E e \in Rejections :
          /\ Rejects(e)
          /\ Finish(depositCatch(e))
          /\ UNCHANGED locals
     \/ \E txHash \in TxHashes :
          /\ Fulfils(txHash)
          /\ locals' = [locals EXCEPT !.txHash = txHash]
          /\ Await("depositWait", WaitForTransactionReceiptCall(txHash))
  /\ UNCHANGED <<provider, action, args>>

\* both revisions: the receipt wait settles; render the result
depositWait ==
  /\ pc = "depositWait"
  /\ \/ \E e \in Rejections :
          /\ Rejects(e)
          /\ Finish(depositCatch(e))
     \/ \E receipt \in Receipts :
          /\ Fulfils(receipt)
          /\ Finish(Returned(depositMessage(args.assets, args.receiver,
                                            locals.txHash, receipt)))
  /\ UNCHANGED <<provider, action, args, locals>>

\* ----------------------------------------------------------------- redeem
redeemCatch(error) ==
  Returned([tag |-> "Error redeeming from Yelay Vault: ", cause |-> String(error)])

redeemData(amount, receiver) ==
  encodeFunctionData("redeem", <<amount, RETAIL_POOL_ID, receiver>>)

redeemMessage(assets, receiver, txHash, receipt) ==
  [tag |-> "Redeemed", assets |-> assets, vault |-> receiver,
   txHash |-> txHash, receipt |-> JSONstringify(receipt)]

\* config revision: entry of redeem up to sendTransaction (no scaling)
redeem ==
  /\ rev = "config"
  /\ pc = "idle"
  /\ \E a \in RedeemAssets, r \in VaultAddrs :
       /\ action' = "redeem"
       /\ args' = [NoArgs EXCEPT !.assets = a, !.receiver = r]
       /\ IF NonPositive(BigInt(a).v)
          THEN Finish(Returned(ValidationError)) /\ UNCHANGED locals
          ELSE /\ locals' = [locals EXCEPT !.atomicAssets = BigInt(a).v]
               /\ Await("redeemSend",
                        SendTransactionCall(config.VaultWrapper,
                                            redeemData(BigInt(a).v, r)))
  /\ UNCHANGED <<provider, outcomes>>

\* wallet-chain revision: entry of redeem up to the vault-list fetch
wRedeem ==
  /\ rev = "wallet"
  /\ pc = "idle"
  /\ \E a \in RedeemAssets, r \in VaultAddrs :
       /\ action' = "redeem"
       /\ args' = [NoArgs EXCEPT !.assets = a, !.receiver = r]
       /\ IF NonPositive(BigInt(a).v)
          THEN Finish(Returned(ValidationError))
          ELSE Await("wRedeemFetch",
                     FetchCall(YELAY_BACKEND_URL, "/vaults",
                               [chainId |-> walletChainId]))
  /\ UNCHANGED <<provider, locals, outcomes>>

\* wallet-chain revision: the fetch settles; the status is not inspected
wRedeemFetch ==
  /\ pc = "wRedeemFetch"
  /\ \/ \E e \in Rejections :
          /\ Rejects(e)
          /\ Finish(redeemCatch(e))
          /\ UNCHANGED locals
     \/ \E ok \in BOOLEAN :
          /\ Fulfils([ok |-> ok])
          /\ locals' = [locals EXCEPT !.responseOk = ok]
          /\ Await("wRedeemJson", JsonCall)
  /\ UNCHANGED <<provider, action, args>>

\* wallet-chain revision: the body decodes; find the vault, scale by its
\* decimals, encode and send to the receiver
wRedeemJson ==
  /\ pc = "wRedeemJson"
  /\ \/ \E e \in Rejections :
          /\ Rejects(e)
          /\ Finish(redeemCatch(e))
          /\ UNCHANGED locals
     \/ \E body \in VaultBodies :
          /\ Fulfils(body)
          /\ IF ~body.array
             THEN Finish(redeemCatch(TypeError)) /\ UNCHANGED locals
             ELSE IF findVault(body.items, args.receiver) = <<>>
             THEN Finish(Returned(VaultNotFound)) /\ UNCHANGED locals
             ELSE LET vault == findVault(body.items, args.receiver)[1]
                      atomicAssets == parseUnits(args.assets, vault.decimals)
                  IN  /\ locals' = [locals EXCEPT !.decoded = TRUE,
                                                  !.decimals = vault.decimals,
                                                  !.atomicAssets = atomicAssets]
                      /\ Await("redeemSend",
                               SendTransactionCall(args.receiver,
                                                   redeemData(atomicAssets, args.receiver)))
  /\ UNCHANGED <<provider, action, args>>

\* both revisions: sendTransaction settles; wait for the receipt of its hash
redeemSend ==
  /\ pc = "redeemSend"
  /\ \/ \E e \in Rejections :
          /\ Rejects(e)
          /\ Finish(redeemCatch(e))
          /\ UNCHANGED locals
     \/ \E txHash \in TxHashes :
          /\ Fulfils(txHash)
          /\ locals' = [locals EXCEPT !.txHash = txHash]
          /\ Await("redeemWait", WaitForTransactionReceiptCall(txHash))
  /\ UNCHANGED <<provider, action, args>>

\* both revisions: the receipt wait settles; render the result
redeemWait ==
  /\ pc = "redeemWait"
  /\ \/ \E e \in Rejections :
          /\ Rejects(e)
          /\ Finish(redeemCatch(e))
     \/ \E receipt \in Receipts :
          /\ Fulfils(receipt)
          /\ Finish(Returned(redeemMessage(args.assets, args.receiver,
                                           locals.txHash, receipt)))
  /\ UNCHANGED <<provider, action, args, locals>>

\* ------------------------------------------------------------------ claim
\* entries of GET /claim-proof as the backend sends them (ClaimRequestRaw)
ClaimRequestRaws ==
  {[yelayLiteVault |-> "0xVaultA", projectId |-> RETAIL_POOL_ID, cycle |-> 1,
    yieldSharesTotal |-> y, blockNumber |-> 1234567, proof |-> <<"0x123">>] :
     y \in {"100", "250"}}
ProofBodies ==
  {[array |-> TRUE, items |-> l] :
     l \in UNION {[1..n -> ClaimRequestRaws] : n \in 0..MaxEntries}} \cup {NoBody}

proofCatch(error) ==
  Returned([tag |-> "Error obtaining proof for yield to claim from Yelay Vault: ",
            cause |-> String(error)])

claimRethrow(error) == Thrown(error)

claimCatch(error) ==
  Returned([tag |-> "Error claiming yield from Yelay Vault: ", cause |-> String(error)])

\* encoding of one tuple of YIELD_EXTRACTOR_ABI claim(data[]): the encoder
\* reads the components by their ABI names
encodeClaimRequest(c) ==
  <<c.yelayLiteVault, c.projectId, c.cycle, c.yieldSharesTotal, c.proof>>

claimData(claimRequests) ==
  encodeFunctionData("claim",
    <<[i \in 1..Len(claimRequests) |-> encodeClaimRequest(claimRequests[i])]>>)

claimMessageFirstOnly(claimRequests, vaultAddress, txHash, receipt) ==
  [tag |-> "Claimed",
   lines |-> [i \in 1..(IF Len(claimRequests) = 0 THEN 0 ELSE 1) |->
                [yieldSharesTotal |-> claimRequests[i].yieldSharesTotal,
                 vault |-> vaultAddress, txHash |-> txHash,
                 receipt |-> JSONstringify(receipt)]]]

\* claimRequests.map(c => `Claimed ...`).join("\n")
claimMessage(claimRequests, vaultAddress, txHash, receipt) ==
  [tag |-> "Claimed",
   lines |-> [i \in 1..Len(claimRequests) |->
                [yieldSharesTotal |-> claimRequests[i].yieldSharesTotal,
                 vault |-> vaultAddress, txHash |-> txHash,
                 receipt |-> JSONstringify(receipt)]]]

claimChainWallet == IF walletChainId = "8453" THEN 8453 ELSE 10

\* the chain, backend and yield extractor a revision uses
claimChain == IF rev = "config" THEN chainId ELSE walletChainId
claimBackend == IF rev = "config" THEN config.backendUrl ELSE YELAY_BACKEND_URL
claimExtractor ==
  IF rev = "config" THEN <<config.YieldExtractor>>
  ELSE IF walletChainId \in DOMAIN CONTRACTS_BY_CHAIN
  THEN <<CONTRACTS_BY_CHAIN[walletChainId].YieldExtractor>>
  ELSE <<>>

\* entry of claim up to the claim-proof fetch
claim ==
  /\ pc = "idle"
  /\ rev \in {"config", "wallet"}
  /\ \E v \in VaultAddrs :
       /\ action' = "claim"
       /\ args' = [NoArgs EXCEPT !.vaultAddress = v]
       /\ Await("claimFetch",
                FetchCall(claimBackend, "/claim-proof",
                          [chainId |-> claimChain, u |-> WalletAddress,
                           p |-> RETAIL_POOL_ID, v |-> v]))
  /\ UNCHANGED <<provider, locals, outcomes>>

\* the claim-proof fetch settles; the status is not inspected
claimFetch ==
  /\ pc = "claimFetch"
  /\ \/ \E e \in Rejections :
          /\ Rejects(e)
          /\ Finish(proofCatch(e))
          /\ UNCHANGED locals
     \/ \E ok \in BOOLEAN :
          /\ Fulfils([ok |-> ok])
          /\ locals' = [locals EXCEPT !.responseOk = ok]
          /\ Await("claimJson", JsonCall)
  /\ UNCHANGED <<provider, action, args>>

claimJsonSkipEmpty ==
  /\ pc = "claimJson"
  /\ \/ \E e \in Rejections :
          /\ Rejects(e)
          /\ Finish(proofCatch(e))
          /\ UNCHANGED locals
     \/ \E body \in ProofBodies :
          /\ Fulfils(body)
          /\ locals' = [locals EXCEPT !.decoded = TRUE, !.claimRequests = body]
          /\ IF ~body.array \/ claimExtractor = <<>>
             THEN Finish(claimCatch(TypeError))
             ELSE IF body.items = <<>>
             THEN Finish(Returned([tag |-> "Claimed", lines |-> <<>>]))
             ELSE Await("claimSend",
                        SendTransactionCall(claimExtractor[1], claimData(body.items)))
  /\ UNCHANGED <<provider, action, args>>

\* the body decodes; the entries go to the encoder as they came, and the
\* transaction is sent to the yield extractor
claimJson ==
  /\ pc = "claimJson"
  /\ \/ \E e \in Rejections :
          /\ Rejects(e)
          /\ Finish(proofCatch(e))
          /\ UNCHANGED locals
     \/ \E body \in ProofBodies :
          /\ Fulfils(body)
          /\ locals' = [locals EXCEPT !.decoded = TRUE, !.claimRequests = body]
          /\ IF ~body.array \/ claimExtractor = <<>>
             THEN Finish(claimCatch(TypeError))
             ELSE Await("claimSend",
                        SendTransactionCall(claimExtractor[1], claimData(body.items)))
  /\ UNCHANGED <<provider, action, args>>

\* sendTransaction settles; wait for the receipt of its hash
claimSend ==
  /\ pc = "claimSend"
  /\ \/ \E e \in Rejections :
          /\ Rejects(e)
          /\ Finish(claimCatch(e))
          /\ UNCHANGED locals
     \/ \E txHash \in TxHashes :
          /\ Fulfils(txHash)
          /\ locals' = [locals EXCEPT !.txHash = txHash]
          /\ Await("claimWait", WaitForTransactionReceiptCall(txHash))
  /\ UNCHANGED <<provider, action, args>>

\* the receipt wait settles; render one line group per entry
claimWait ==
  /\ pc = "claimWait"
  /\ \/ \E e \in Rejections :
          /\ Rejects(e)
          /\ Finish(claimCatch(e))
     \/ \E receipt \in Receipts :
          /\ Fulfils(receipt)
          /\ Finish(Returned(claimMessage(locals.claimRequests.items,
                                          args.vaultAddress, locals.txHash, receipt)))
  /\ UNCHANGED <<provider, action, args, locals>>

\* -------------------------------------------------------------- getVaults
\* bodies of GET /vaults as getVaults reads them (address and name) and of
\* GET /interest/vaults (vault and apy); "0xvaulta" differs from "0xVaultA"
\* in letter case only
VaultsDetails ==
  {[address |-> "0xVaultA", name |-> "Base WETH Vault"],
   [address |-> "0xVaultB", name |-> "Base USDC Vault"]}
ApyVaults == VaultAddrs \cup {"0xvaulta"}
ApyTexts == {"3.4", "5.2"}
APYResponses == {[vault |-> a, apy |-> y] : a \in ApyVaults, y \in ApyTexts}
VaultsDetailsBodies ==
  {[array |-> TRUE, items |-> l] :
     l \in UNION {[1..n -> VaultsDetails] : n \in 0..MaxVaults}} \cup {NoBody}
APYBodies ==
  {[array |-> TRUE, items |-> l] :
     l \in UNION {[1..n -> APYResponses] : n \in 0..MaxApys}} \cup {NoBody}

sameAddressIgnoreCase(a, b) ==
  LET lower(x) == CASE x = "0xVaultA" -> "0xvaulta"
                    [] x = "0xVaultB" -> "0xvaultb"
                    [] OTHER -> x
  IN  lower(a) = lower(b)

\* apy.vault === vault.address
sameAddress(a, b) == a = b

findApyLast(vaultAPYs, address) ==
  IF \E j \in 1..Len(vaultAPYs) : sameAddress(vaultAPYs[j].vault, address)
  THEN vaultAPYs[CHOOSE j \in 1..Len(vaultAPYs) :
                   /\ sameAddress(vaultAPYs[j].vault, address)
                   /\ \A k \in (j + 1)..Len(vaultAPYs) :
                        ~sameAddress(vaultAPYs[k].vault, address)].apy
  ELSE "undefined"

\* vaultAPYs.find(apy => apy.vault === vault.address)?.apy as the template
\* literal renders it
findApy(vaultAPYs, address) ==
  IF \E j \in 1..Len(vaultAPYs) : sameAddress(vaultAPYs[j].vault, address)
  THEN vaultAPYs[CHOOSE j \in 1..Len(vaultAPYs) :
                   /\ sameAddress(vaultAPYs[j].vault, address)
                   /\ \A k \in 1..(j - 1) :
                        ~sameAddress(vaultAPYs[k].vault, address)].apy
  ELSE "undefined"

\* the template literal of one vault
vaultLine(vault, apy) ==
  IF rev = "wallet"
  THEN <<vault.name, ":\n          Address: ", vault.address,
         "\n          APY: ", apy, "%">>
  ELSE <<vault.name, ": APY ", apy, "%">>

\* vaults.map(...).map(...) and, where the revision joins, the separator
vaultsMessage(vaults, vaultAPYs) ==
  LET lines == [i \in 1..Len(vaults) |->
                  vaultLine(vaults[i], findApy(vaultAPYs, vaults[i].address))]
  IN  CASE rev = "config" -> [tag |-> "Vaults", sep |-> "\n", lines |-> lines]
        [] rev = "wallet" ->
             [tag |-> "Vaults", sep |-> "\n----------------\n", lines |-> lines]
        [] rev = "list" -> [tag |-> "VaultList", lines |-> lines]

Unavailable ==
  [tag |-> "Yield backend is currently unavailable. Please try again later."]
YeldUnavailable ==
  [name |-> "Error",
   message |-> "Yeld backend is currently unavailable. Please try again later."]

getVaultsRethrow(error) == Thrown(error)

\* the catch block of getVaults
getVaultsCatch(error) ==
  IF rev = "list" THEN Thrown(YeldUnavailable) ELSE Returned(Unavailable)

responsesOkVaultsOnly(vaultsResponse, vaultAPYsResponse) == vaultsResponse.ok

responsesOkApyOnly(vaultsResponse, vaultAPYsResponse) == vaultAPYsResponse.ok

\* !(!vaultsResponse.ok || !vaultAPYsResponse.ok)
responsesOk(vaultsResponse, vaultAPYsResponse) ==
  vaultsResponse.ok /\ vaultAPYsResponse.ok

FailedToFetch == [name |-> "Error", message |-> "Failed to fetch"]

getVaultsChain == IF rev = "wallet" THEN walletChainId ELSE chainId
getVaultsBackend == IF rev = "wallet" THEN YELAY_BACKEND_URL ELSE config.backendUrl

\* entry of getVaults: both requests are started, then both are awaited
getVaults ==
  /\ pc = "idle"
  /\ action' = "getVaults"
  /\ AwaitAll("getVaultsFetch",
              <<FetchCall(getVaultsBackend, "/vaults", [chainId |-> getVaultsChain]),
                FetchCall(getVaultsBackend, "/interest/vaults",
                          [chainId |-> getVaultsChain])>>)
  /\ UNCHANGED <<provider, args, locals, outcomes>>

\* one of the two requests settles; the first rejection ends the wait, and
\* with both responses at hand the statuses are checked and both bodies
\* are decoded together
getVaultsFetch ==
  /\ pc = "getVaultsFetch"
  /\ \E k \in 1..2 :
       /\ (IF k = 1 THEN locals.vaultsResponse ELSE locals.vaultAPYsResponse) = <<>>
       /\ \/ \E e \in Rejections :
               /\ RejectsCall(k, e)
               /\ Finish(getVaultsCatch(e))
               /\ UNCHANGED locals
          \/ \E ok \in BOOLEAN :
               LET r1 == IF k = 1 THEN <<[ok |-> ok]>> ELSE locals.vaultsResponse
                   r2 == IF k = 2 THEN <<[ok |-> ok]>> ELSE locals.vaultAPYsResponse
               IN  /\ FulfilsCall(k, [ok |-> ok])
                   /\ locals' = [locals EXCEPT !.vaultsResponse = r1,
                                               !.vaultAPYsResponse = r2]
                   /\ IF r1 = <<>> \/ r2 = <<>>
                      THEN pc' = pc /\ calls' = calls /\ result' = result
                      ELSE IF responsesOk(r1[1], r2[1])
                      THEN AwaitAll("getVaultsJson",
                                    <<[fn |-> "json", response |-> 1],
                                      [fn |-> "json", response |-> 2]>>)
                      ELSE Finish(getVaultsCatch(FailedToFetch))
  /\ UNCHANGED <<provider, action, args>>

\* one of the two bodies decodes; with both at hand the vault list is
\* joined with the APY list and rendered
getVaultsJson ==
  /\ pc = "getVaultsJson"
  /\ \E k \in 1..2 :
       /\ (IF k = 1 THEN locals.vaults ELSE locals.vaultAPYs) = <<>>
       /\ \/ \E e \in Rejections :
               /\ RejectsCall(k + 2, e)
               /\ Finish(getVaultsCatch(e))
               /\ UNCHANGED locals
          \/ \E body \in (IF k = 1 THEN VaultsDetailsBodies ELSE APYBodies) :
               LET b1 == IF k = 1 THEN <<body>> ELSE locals.vaults
                   b2 == IF k = 2 THEN <<body>> ELSE locals.vaultAPYs
               IN  /\ FulfilsCall(k + 2, body)
                   /\ locals' = [locals EXCEPT !.vaults = b1, !.vaultAPYs = b2]
                   /\ IF b1 = <<>> \/ b2 = <<>>
                      THEN pc' = pc /\ calls' = calls /\ result' = result
                      ELSE IF \/ ~b1[1].array
                              \/ Len(b1[1].items) > 0 /\ ~b2[1].array
                      THEN Finish(getVaultsCatch(TypeError))
                      ELSE Finish(Returned(vaultsMessage(b1[1].items, b2[1].items)))
  /\ UNCHANGED <<provider, action, args>>

\* -------------------------------------------------------- supportsNetwork
ProtocolFamilies == {"evm", "svm", "other-protocol-family"}
\* network.chainId: undefined (<<>>) or a string, the empty one included
NetworkChainIds == {<<>>} \cup {<<c>> : c \in SUPPORTED_NETWORKS \cup {"", "10"}}
Networks ==
  {[protocolFamily |-> f, chainId |-> c] :
     f \in ProtocolFamilies, c \in NetworkChainIds}

isSupportedAnyFamily(network) ==
  /\ network.chainId # <<>>
  /\ network.chainId[1] \in SUPPORTED_NETWORKS

\* the expression supportsNetwork returns: the earlier revision tests
\* chainId !== undefined, the later ones its truthiness
isSupported(network) ==
  /\ network.protocolFamily = "evm"
  /\ IF rev = "list"
     THEN /\ network.chainId # <<>>
          /\ network.chainId[1] \in SUPPORTED_NETWORKS
     ELSE IF network.chainId # <<>> /\ network.chainId[1] # ""
          THEN network.chainId[1] \in SUPPORTED_NETWORKS
          ELSE FALSE

supportsNetwork ==
  /\ pc = "idle"
  /\ \E network \in Networks :
       /\ action' = "supportsNetwork"
       /\ args' = [NoArgs EXCEPT !.network = network]
       /\ Finish(Returned([tag |-> "supportsNetwork",
                           value |-> isSupported(network)]))
  /\ UNCHANGED <<provider, locals, outcomes>>

\* ------------------------------------------- getEnvironment, constructor
\* chain ids handed to getEnvironment: the supported ones and two others
ChainInputs == ChainIds \cup {10, 84532}

Error(message) == [name |-> "Error", message |-> message]

\* a call of the exported resolver
callGetEnvironment ==
  /\ pc = "idle"
  /\ \E id \in ChainInputs, testing \in BOOLEAN :
       LET r == getEnvironment(id, testing)
       IN  /\ action' = "getEnvironment"
           /\ args' = [NoArgs EXCEPT !.chainId = id, !.testing = testing]
           /\ Finish(IF r.ok
                     THEN Returned([tag |-> "SDKConfig", config |-> r.config])
                     ELSE Thrown(Error(r.error)))
  /\ UNCHANGED <<provider, locals, outcomes>>

constructedUnchecked(id, testing) ==
  Returned([tag |-> "YelayActionProvider", chainId |-> id, isTest |-> testing,
            config |-> getEnvironment(id, testing).config])

\* new YelayActionProvider(chainId, isTest): the fields are set and the
\* configuration resolved; a throw of getEnvironment leaves the constructor
constructed(id, testing) ==
  LET r == getEnvironment(id, testing)
  IN  IF r.ok
      THEN Returned([tag |-> "YelayActionProvider", chainId |-> id,
                     isTest |-> testing, config |-> r.config])
      ELSE Thrown(Error(r.error))

constructShared ==
  /\ pc = "idle"
  /\ rev \in {"config", "list"}
  /\ \E id \in ChainInputs, testing \in BOOLEAN :
       /\ action' = "construct"
       /\ args' = [NoArgs EXCEPT !.chainId = id, !.testing = testing]
       /\ Finish(constructed(id, testing))
       /\ IF getEnvironment(id, testing).ok
          THEN /\ chainId' = id
               /\ isTest' = testing
               /\ config' = getEnvironment(id, testing).config
          ELSE UNCHANGED <<chainId, isTest, config>>
  /\ UNCHANGED <<rev, walletChainId, locals, outcomes>>

\* another provider is constructed (the revisions with constructor arguments)
construct ==
  /\ pc = "idle"
  /\ rev \in {"config", "list"}
  /\ \E id \in ChainInputs, testing \in BOOLEAN :
       /\ action' = "construct"
       /\ args' = [NoArgs EXCEPT !.chainId = id, !.testing = testing]
       /\ Finish(constructed(id, testing))
  /\ UNCHANGED <<provider, locals, outcomes>>

\* -------------------------------------------------------------- getBalance
\* values of balanceOf and yieldSharesClaimed, and bodies of GET /balance
Balances == {<<"0">>, <<"1", "5">>}

ClaimProofFailed == [name |-> "Error", message |-> "Claim proof failed"]

balanceCatch(error) ==
  Returned([tag |-> "Error getting balance from Yelay Vault: ",
            cause |-> String(error)])

\* `User balance from Yelay Vault ${args.vaultAddress}: ${balance}`
balanceMessage(vaultAddress, balance) ==
  [tag |-> "User balance from Yelay Vault ", vault |-> vaultAddress,
   balance |-> balance]

\* the three-line report of balance, generated and claimed yield shares
balanceYieldMessage(vaultAddress, balance, yieldSharesTotal, yieldSharesClaimed) ==
  [tag |-> "User balance from Yelay Vault ", vault |-> vaultAddress,
   balance |-> balance, generated |-> yieldSharesTotal,
   claimed |-> yieldSharesClaimed]

\* config revision: the balance is asked of the backend
getBalance ==
  /\ pc = "idle"
  /\ rev = "config"
  /\ \E v \in VaultAddrs :
       /\ action' = "getBalance"
       /\ args' = [NoArgs EXCEPT !.vaultAddress = v]
       /\ Await("getBalanceFetch",
                FetchCall(config.backendUrl, "/balance",
                          [chainId |-> chainId, u |-> WalletAddress,
                           p |-> RETAIL_POOL_ID, v |-> v]))
  /\ UNCHANGED <<provider, locals, outcomes>>

\* the balance fetch settles; the status is not inspected
getBalanceFetch ==
  /\ pc = "getBalanceFetch"
  /\ \/ \E e \in Rejections :
          /\ Rejects(e)
          /\ Finish(balanceCatch(e))
     \/ \E ok \in BOOLEAN :
          /\ Fulfils([ok |-> ok])
          /\ Await("getBalanceJson", JsonCall)
  /\ UNCHANGED <<provider, action, args, locals>>

\* the body decodes and is rendered as the balance
getBalanceJson ==
  /\ pc = "getBalanceJson"
  /\ \/ \E e \in Rejections :
          /\ Rejects(e)
          /\ Finish(balanceCatch(e))
          /\ UNCHANGED locals
     \/ \E balance \in Balances :
          /\ Fulfils(balance)
          /\ locals' = [locals EXCEPT !.balance = <<balance>>]
          /\ Finish(Returned(balanceMessage(args.vaultAddress, balance)))
  /\ UNCHANGED <<provider, action, args>>

\* wallet-chain revision: entry of getBalance up to the balanceOf read
wGetBalance ==
  /\ pc = "idle"
  /\ rev = "wallet"
  /\ \E v \in VaultAddrs :
       /\ action' = "getBalance"
       /\ args' = [NoArgs EXCEPT !.vaultAddress = v]
       /\ Await("wGetBalanceRead",
                ReadContractCall(v, "balanceOf", <<WalletAddress, RETAIL_POOL_ID>>))
  /\ UNCHANGED <<provider, locals, outcomes>>

\* balanceOf settles; the claim proof is fetched
wGetBalanceRead ==
  /\ pc = "wGetBalanceRead"
  /\ \/ \E e \in Rejections :
          /\ Rejects(e)
          /\ Finish(balanceCatch(e))
          /\ UNCHANGED locals
     \/ \E balance \in Balances :
          /\ Fulfils(balance)
          /\ locals' = [locals EXCEPT !.balance = <<balance>>]
          /\ Await("wGetBalanceFetch",
                   FetchCall(YELAY_BACKEND_URL, "/claim-proof",
                             [chainId |-> walletChainId, u |-> WalletAddress,
                              p |-> RETAIL_POOL_ID, v |-> args.vaultAddress]))
  /\ UNCHANGED <<provider, action, args>>

\* the claim-proof fetch settles; a non-success status throws
wGetBalanceFetch ==
  /\ pc = "wGetBalanceFetch"
  /\ \/ \E e \in Rejections :
          /\ Rejects(e)
          /\ Finish(balanceCatch(e))
          /\ UNCHANGED locals
     \/ \E ok \in BOOLEAN :
          /\ Fulfils([ok |-> ok])
          /\ locals' = [locals EXCEPT !.responseOk = ok]
          /\ IF ok
             THEN Await("wGetBalanceJson", JsonCall)
             ELSE Finish(balanceCatch(ClaimProofFailed))
  /\ UNCHANGED <<provider, action, args>>

\* the proof decodes: an empty list ends the handler with the balance
\* alone; otherwise yieldSharesClaimed is read on the chain's yield
\* extractor (a body that is no list has no length 0 and is read past)
wGetBalanceJson ==
  /\ pc = "wGetBalanceJson"
  /\ \/ \E e \in Rejections :
          /\ Rejects(e)
          /\ Finish(balanceCatch(e))
          /\ UNCHANGED locals
     \/ \E body \in ProofBodies :
          /\ Fulfils(body)
          /\ locals' = [locals EXCEPT !.decoded = TRUE, !.claimRequests = body]
          /\ IF body.array /\ Len(body.items) = 0
             THEN Finish(Returned(balanceMessage(args.vaultAddress,
                                                 locals.balance[1])))
             ELSE IF walletChainId \notin DOMAIN CONTRACTS_BY_CHAIN
             THEN Finish(balanceCatch(TypeError))
             ELSE Await("wGetBalanceClaimed",
                        ReadContractCall(
                          CONTRACTS_BY_CHAIN[walletChainId].YieldExtractor,
                          "yieldSharesClaimed",
                          <<WalletAddress, args.vaultAddress, RETAIL_POOL_ID>>))
  /\ UNCHANGED <<provider, action, args>>

lastClaimRequest(claimRequests) == claimRequests[Len(claimRequests)]

\* claimRequests[0]
firstClaimRequest(claimRequests) == claimRequests[1]

\* yieldSharesClaimed settles; the report names the first entry's total
wGetBalanceClaimed ==
  /\ pc = "wGetBalanceClaimed"
  /\ \/ \E e \in Rejections :
          /\ Rejects(e)
          /\ Finish(balanceCatch(e))
     \/ \E yieldSharesClaimed \in Balances :
          /\ Fulfils(yieldSharesClaimed)
          /\ IF ~locals.claimRequests.array
             THEN Finish(balanceCatch(TypeError))
             ELSE Finish(Returned(balanceYieldMessage(
                    args.vaultAddress, locals.balance[1],
                    firstClaimRequest(locals.claimRequests.items).yieldSharesTotal,
                    yieldSharesClaimed)))
  /\ UNCHANGED <<provider, action, args, locals>>

Next ==
  \/ deposit \/ depositRead \/ wDeposit \/ wDepositFetch \/ wDepositJson
  \/ wDepositApprove \/ depositSend \/ depositWait
  \/ redeem \/ wRedeem \/ wRedeemFetch \/ wRedeemJson \/ redeemSend \/ redeemWait
  \/ claim \/ claimFetch \/ claimJson \/ claimSend \/ claimWait
  \/ getVaults \/ getVaultsFetch \/ getVaultsJson
  \/ getBalance \/ getBalanceFetch \/ getBalanceJson
  \/ wGetBalance \/ wGetBalanceRead \/ wGetBalanceFetch \/ wGetBalanceJson
  \/ wGetBalanceClaimed
  \/ supportsNetwork \/ callGetEnvironment \/ construct

Spec == Init /\ [][Next]_vars

\* every awaited call settles in the end and the continuation that awaits
\* it is then run: a step that can be taken is eventually taken
FairSpec == Spec /\ WF_vars(Next)


\* ================================================================ claims
SendCalls == {i \in DOMAIN calls : calls[i].fn = "sendTransaction"}
Settled(i) == i \in DOMAIN outcomes
Succeeded == pc = "done" /\ result.kind = "returned"
                         /\ result.msg.tag \in {"Deposited", "Redeemed", "Claimed"}

\* the vault wrapper and yield extractor of the configuration resolved for
\* the chain the provider works on
ResolvedContracts ==
  IF rev = "config" THEN <<getEnvironment(chainId, isTest).config>>
  ELSE IF walletChainId \in SUPPORTED_NETWORKS
  THEN <<CONTRACTS_BY_CHAIN[walletChainId]>>
  ELSE <<>>

PublicActions == {"getVaults", "deposit", "redeem", "claim", "getBalance"}

\* C1: every invocation of a public action ends by returning a string and
\* never by throwing, deposit of a fractional amount included.
C1_NeverThrows ==
  (pc = "done" /\ action \in PublicActions) => result.kind = "returned"

\* C2: in deposit and redeem, when the parsed integer value of assets is
\* <= 0 the handler returns the validation string and makes no backend or
\* wallet call in that invocation.
C2_NonPositiveShortCircuits ==
  (/\ action \in {"deposit", "redeem"}
   /\ IsDigits(args.assets)
   /\ Val(args.assets) <= 0)
  => /\ pc = "done"
     /\ result = Returned(ValidationError)
     /\ calls = <<>>

C2_Witness ==
  /\ action = "deposit"
  /\ args.assets = <<"0", "0">>
  /\ pc = "done"

\* C3: for a positive whole amount a and the decimals d obtained in the
\* invocation, deposit encodes a * 10^d as first call argument (the digits
\* of a followed by d zeros; 1 and 18 give 10^18), and the success string
\* holds the amount text as given, the transaction hash and the JSON
\* rendering of the receipt.
C3_AtomicAmount ==
  action = "deposit" =>
    /\ \A i \in SendCalls :
         /\ calls[i].data.args[1] =
              StripLeadingZeros(args.assets) \o Zeros(locals.decimals)
         /\ Len(args.assets) + locals.decimals <= 9 =>
              Val(calls[i].data.args[1]) = Val(args.assets) * Pow10(locals.decimals)
         /\ Val(args.assets) > 0
    /\ Succeeded =>
         /\ result.msg.assets = args.assets
         /\ \E i \in SendCalls : Settled(i) /\ result.msg.txHash = outcomes[i].value
         /\ result.msg.receipt = JSONstringify(outcomes[Len(outcomes)].value)

C3_Witness ==
  /\ action = "deposit"
  /\ Succeeded
  /\ args.assets = <<"1">>
  /\ locals.decimals = MOCK_DECIMALS
  /\ \E i \in SendCalls : Len(calls[i].data.args[1]) = MOCK_DECIMALS + 1

\* C4: deposit accepts a whole-unit amount with a fractional part: it does
\* not fail on the amount but goes on to convert and submit it.
C4_FractionalAccepted ==
  (/\ action = "deposit"
   /\ DotAt(args.assets) > 0
   /\ \E i \in 1..Len(args.assets) : args.assets[i] \notin {"0", "."})
  => /\ result.kind # "thrown"
     /\ ~(pc = "done" /\ calls = <<>>)

\* C5: on every successful deposit sendTransaction goes to the vault
\* wrapper of the resolved configuration, not to the receiver, with call
\* data deposit(atomicAmount, RETAIL_POOL_ID, receiver).
C5_DepositDestination ==
  (action = "deposit" /\ Succeeded) =>
    /\ Cardinality(SendCalls) = 1
    /\ \A i \in SendCalls :
         /\ ResolvedContracts # <<>>
         /\ calls[i].to = ResolvedContracts[1].VaultWrapper
         /\ calls[i].data.functionName = "deposit"
         /\ calls[i].data.args = <<locals.atomicAssets, RETAIL_POOL_ID, args.receiver>>

\* C6: when sendTransaction or waitForTransactionReceipt throws, the
\* handler returns its own prefix followed by the rendering of the cause,
\* and makes no call after the failed one.
ErrorPrefix ==
  CASE action = "deposit" -> "Error depositing to Yelay Vault: "
    [] action = "redeem" -> "Error redeeming from Yelay Vault: "
    [] action = "claim" -> "Error claiming yield from Yelay Vault: "

C6_TransactionFailureReturned ==
  \A i \in DOMAIN outcomes :
    (/\ outcomes[i].kind = "rejected"
     /\ calls[i].fn \in {"sendTransaction", "waitForTransactionReceipt"})
    => /\ pc = "done"
       /\ i = Len(calls)
       /\ result.kind = "returned"
       /\ result.msg.tag = ErrorPrefix
       /\ result.msg.cause =
            <<outcomes[i].error.name, ": ", outcomes[i].error.message>>

C6_Witness ==
  /\ action = "claim"
  /\ Len(outcomes) = 4
  /\ calls[3].fn = "sendTransaction"
  /\ outcomes[3].kind = "resolved"
  /\ calls[4].fn = "waitForTransactionReceipt"
  /\ outcomes[4].kind = "rejected"
  /\ pc = "done"

\* C7: redeem applies no decimal scaling: the call is
\* redeem(a, RETAIL_POOL_ID, receiver) with a the amount as given, sent to
\* the vault wrapper of the resolved configuration.
C7_RedeemUnscaled ==
  action = "redeem" =>
    \A i \in SendCalls :
      /\ calls[i].data.functionName = "redeem"
      /\ calls[i].data.args =
           <<StripLeadingZeros(args.assets), RETAIL_POOL_ID, args.receiver>>
      /\ ResolvedContracts # <<>>
      /\ calls[i].to = ResolvedContracts[1].VaultWrapper

\* C8: when obtaining the claim proof fails (network error, non-success
\* status, undecodable body) claim returns the obtaining-proof prefix and
\* never calls sendTransaction; the claiming prefix appears only after the
\* proof was obtained successfully.
ProofFailed ==
  \/ Settled(1) /\ outcomes[1].kind = "rejected"
  \/ Settled(1) /\ outcomes[1].kind = "resolved" /\ ~outcomes[1].value.ok
  \/ Settled(2) /\ outcomes[2].kind = "rejected"

ProofObtained ==
  /\ Settled(2)
  /\ outcomes[1].kind = "resolved"
  /\ outcomes[1].value.ok
  /\ outcomes[2].kind = "resolved"

C8_FailureDomains ==
  action = "claim" =>
    /\ ProofFailed =>
         /\ SendCalls = {}
         /\ pc = "done" =>
              /\ result.kind = "returned"
              /\ result.msg.tag =
                   "Error obtaining proof for yield to claim from Yelay Vault: "
    /\ (/\ pc = "done"
        /\ result.kind = "returned"
        /\ result.msg.tag = "Error claiming yield from Yelay Vault: ")
       => ProofObtained

ClaimRequestOf(raw) ==
  [yelayLiteVault |-> raw.yelayLiteVault, pool |-> raw.projectId,
   cycle |-> raw.cycle, yieldSharesTotal |-> raw.yieldSharesTotal,
   blockNumber |-> raw.blockNumber, proof |-> raw.proof]

C10_ClaimEntriesTransformed ==
  (action = "claim" /\ ProofObtained) =>
    \A i \in SendCalls :
      LET fetched == outcomes[2].value.items
      IN  /\ ResolvedContracts # <<>>
          /\ calls[i].to = ResolvedContracts[1].YieldExtractor
          /\ calls[i].data.functionName = "claim"
          /\ locals.claimRequests.items =
               [k \in 1..Len(fetched) |-> ClaimRequestOf(fetched[k])]

\* getVaults ended after both responses were successful and both bodies
\* decoded as lists
VaultsJoined ==
  /\ action = "getVaults"
  /\ pc = "done"
  /\ locals.vaults # <<>>
  /\ locals.vaultAPYs # <<>>
  /\ locals.vaults[1].array
  /\ locals.vaultAPYs[1].array

\* the APY text of the i-th rendered vault
ApyShown(i) ==
  LET line == result.msg.lines[i] IN line[Len(line) - 1]

\* some response of getVaults came with a non-success status
SomeResponseNotOk ==
  \E i \in DOMAIN outcomes :
    outcomes[i].kind = "resolved" /\ outcomes[i].call \in 1..2 /\ ~outcomes[i].value.ok

\* C11: with both responses successful and decodable, get_vaults returns
\* one string: a line "<name>: APY <apy>%" per vault of the vault list, in
\* the order of the vault list, the lines joined by a single newline.
C11_OneLinePerVault ==
  VaultsJoined =>
    /\ result.kind = "returned"
    /\ result.msg.tag = "Vaults"
    /\ result.msg.sep = "\n"
    /\ Len(result.msg.lines) = Len(locals.vaults[1].items)
    /\ \A i \in 1..Len(result.msg.lines) :
         \E y \in ApyTexts \cup {"undefined"} :
           result.msg.lines[i] = <<locals.vaults[1].items[i].name, ": APY ", y, "%">>

\* C12: the APY shown for a vault is that of the first APY record, in the
\* order of the APY response, whose vault equals the vault's address; later
\* records for the same address do not affect the output.
C12_FirstApyRecord ==
  VaultsJoined =>
    LET vaults == locals.vaults[1].items
        vaultAPYs == locals.vaultAPYs[1].items
    IN  \A i \in 1..Len(vaults) : \A j \in 1..Len(vaultAPYs) :
          (/\ vaultAPYs[j].vault = vaults[i].address
           /\ \A k \in 1..(j - 1) : vaultAPYs[k].vault # vaults[i].address)
          => ApyShown(i) = vaultAPYs[j].apy

C12_Witness ==
  /\ VaultsJoined
  /\ \E i \in 1..Len(locals.vaults[1].items) :
       \E j, k \in 1..Len(locals.vaultAPYs[1].items) :
         /\ j < k
         /\ locals.vaultAPYs[1].items[j].vault = locals.vaults[1].items[i].address
         /\ locals.vaultAPYs[1].items[k].vault = locals.vaults[1].items[i].address
         /\ locals.vaultAPYs[1].items[j].apy # locals.vaultAPYs[1].items[k].apy
         /\ ApyShown(i) = locals.vaultAPYs[1].items[j].apy

\* C13: the join is a left join on exact string equality of the addresses:
\* for every APY list there is exactly one line per vault, in order; a
\* vault without a string-equal APY record (one differing in letter case
\* included) is listed with an undefined APY; an APY record matching no
\* vault adds no line.
C13_LeftJoinExact ==
  VaultsJoined =>
    LET vaults == locals.vaults[1].items
        vaultAPYs == locals.vaultAPYs[1].items
    IN  /\ Len(result.msg.lines) = Len(vaults)
        /\ \A i \in 1..Len(vaults) :
             /\ result.msg.lines[i][1] = vaults[i].name
             /\ (\A j \in 1..Len(vaultAPYs) : vaultAPYs[j].vault # vaults[i].address)
                  => ApyShown(i) = "undefined"

C13_Witness ==
  /\ VaultsJoined
  /\ Len(locals.vaults[1].items) = 1
  /\ locals.vaults[1].items[1].address = "0xVaultA"
  /\ Len(locals.vaultAPYs[1].items) = MaxApys
  /\ \A j \in 1..MaxApys :
       locals.vaultAPYs[1].items[j].vault \in {"0xvaulta", "0xVaultB"}
  /\ locals.vaultAPYs[1].items[1].vault = "0xvaulta"
  /\ ApyShown(1) = "undefined"

C15_ListRevisionThrows ==
  (action = "getVaults" /\ rev = "list" /\ pc = "done" /\ SomeResponseNotOk)
    => result.kind = "thrown"

C15_Witness ==
  /\ action = "getVaults"
  /\ rev = "list"
  /\ pc = "done"
  /\ \E i, j \in DOMAIN outcomes :
       /\ outcomes[i].kind = "resolved" /\ outcomes[i].call = 1 /\ outcomes[i].value.ok
       /\ outcomes[j].kind = "resolved" /\ outcomes[j].call = 2 /\ ~outcomes[j].value.ok
  /\ result = Thrown(YeldUnavailable)

EnvironmentError(message) == Thrown([name |-> "Error", message |-> message])

\* C17: with test mode off getEnvironment returns, for each of the chains
\* 1, 146 and 8453, a configuration whose backend URL, vault-wrapper
\* address and yield-extractor address are non-empty; for every other
\* chain id it throws.
C17_EnvironmentOfSupportedChains ==
  action = "getEnvironment" =>
    /\ (args.chainId \in {1, 146, 8453} /\ ~args.testing) =>
         /\ result.kind = "returned"
         /\ result.msg.config.backendUrl # ""
         /\ result.msg.config.VaultWrapper # ""
         /\ result.msg.config.YieldExtractor # ""
    /\ args.chainId \notin {1, 146, 8453} => result.kind = "thrown"

C17_Witness ==
  /\ action = "getEnvironment"
  /\ args.chainId = 146
  /\ ~args.testing
  /\ result.kind = "returned"
  /\ result.msg.config.YieldExtractor = "0xB84B621D3da3E5e47A1927883C685455Ad731D7C"

\* C18 as stated: for every chain id outside 1, 146, 8453 and for both
\* values of the test-mode flag getEnvironment throws "Chain <id> is not
\* supported" and no other error.
C18_UnsupportedChainError ==
  (action = "getEnvironment" /\ args.chainId \notin {1, 146, 8453}) =>
    result = EnvironmentError(<<"Chain ", args.chainId, " is not supported">>)

\* C18 amended: for every chain id outside 1, 146, 8453 getEnvironment
\* throws; with test mode off the error is "Chain <id> is not supported",
\* with test mode on it is "Test environment is only supported for Base",
\* because the test-mode check comes first.
C18_UnsupportedChainOrTestError ==
  (action = "getEnvironment" /\ args.chainId \notin {1, 146, 8453}) =>
    IF args.testing
    THEN result = EnvironmentError(<<"Test environment is only supported for Base">>)
    ELSE result = EnvironmentError(<<"Chain ", args.chainId, " is not supported">>)

C18_Witness ==
  /\ action = "getEnvironment"
  /\ args.chainId = 10
  /\ args.testing
  /\ result.kind = "thrown"
  /\ result.error.message = <<"Test environment is only supported for Base">>

\* C19: test mode is supported for chain 8453 only: getEnvironment(8453,
\* true) returns the dev backend URL and contract addresses that differ
\* from those of getEnvironment(8453, false); getEnvironment(1, true) and
\* getEnvironment(146, true) throw "Test environment is only supported for
\* Base", and so does constructing the provider with these arguments.
C19_TestModeBaseOnly ==
  (action \in {"getEnvironment", "construct"} /\ args.testing) =>
    /\ args.chainId = 8453 =>
         /\ result.kind = "returned"
         /\ result.msg.config.backendUrl = "https://lite.dev.yelay.io/v2"
         /\ result.msg.config.backendUrl # getEnvironment(8453, FALSE).config.backendUrl
         /\ result.msg.config.VaultWrapper #
              getEnvironment(8453, FALSE).config.VaultWrapper
         /\ result.msg.config.YieldExtractor #
              getEnvironment(8453, FALSE).config.YieldExtractor
    /\ args.chainId \in {1, 146} =>
         result = EnvironmentError(<<"Test environment is only supported for Base">>)

C19_Witness ==
  /\ action = "construct"
  /\ args.chainId = 146
  /\ args.testing
  /\ result = EnvironmentError(<<"Test environment is only supported for Base">>)

\* the reads of yieldSharesClaimed among the calls of the handler
ClaimedReads ==
  {i \in DOMAIN calls :
     calls[i].fn = "readContract" /\ calls[i].functionName = "yieldSharesClaimed"}

\* a call of getBalance failed: it rejected or came back unsuccessful
BalanceCallFailed ==
  \E i \in DOMAIN outcomes :
    \/ outcomes[i].kind = "rejected"
    \/ calls[i].fn = "fetch" /\ ~outcomes[i].value.ok

\* C20: get_balance reads the caller's share balance from the vault
\* contract; with an empty claim-proof list it reports that balance alone
\* and reads no yieldSharesClaimed; with an entry it reads
\* yieldSharesClaimed on the yield extractor and reports the balance, the
\* generated shares (yieldSharesTotal) and the claimed shares; a failure is
\* returned with the prefix "Error getting balance from Yelay Vault: " and
\* never thrown.
C20_BalanceReport ==
  action = "getBalance" =>
    /\ result.kind # "thrown"
    /\ calls[1].fn = "readContract"
    /\ calls[1].functionName = "balanceOf"
    /\ calls[1].address = args.vaultAddress
    /\ calls[1].args = <<WalletAddress, RETAIL_POOL_ID>>
    /\ (pc = "done" /\ BalanceCallFailed) =>
         result.msg.tag = "Error getting balance from Yelay Vault: "
    /\ (pc = "done" /\ locals.decoded /\ locals.claimRequests.array
        /\ locals.claimRequests.items = <<>>) =>
         /\ ClaimedReads = {}
         /\ result = Returned(balanceMessage(args.vaultAddress, outcomes[1].value))
    /\ (pc = "done" /\ locals.decoded /\ locals.claimRequests.array
        /\ locals.claimRequests.items # <<>> /\ ~BalanceCallFailed
        /\ ResolvedContracts # <<>>) =>
         \E i \in ClaimedReads :
           /\ calls[i].address = ResolvedContracts[1].YieldExtractor
           /\ calls[i].args = <<WalletAddress, args.vaultAddress, RETAIL_POOL_ID>>
           /\ result = Returned(balanceYieldMessage(
                         args.vaultAddress, outcomes[1].value,
                         locals.claimRequests.items[1].yieldSharesTotal,
                         outcomes[i].value))

\* the outcome of the k-th call of getVaults, as a sequence of zero or one
OutcomeOfCall(k) ==
  IF \E i \in DOMAIN outcomes : outcomes[i].call = k
  THEN <<outcomes[CHOOSE i \in DOMAIN outcomes : outcomes[i].call = k]>>
  ELSE <<>>

JsonCalls == {i \in DOMAIN calls : calls[i].fn = "json"}

\* the k-th request of getVaults came back with the given success flag
ResponseOk(k, ok) ==
  /\ OutcomeOfCall(k) # <<>>
  /\ OutcomeOfCall(k)[1].kind = "resolved"
  /\ OutcomeOfCall(k)[1].value.ok = ok

C23_StrictOrder ==
  action \in {"deposit", "redeem", "claim"} =>
    /\ \A i \in DOMAIN calls :
         /\ calls[i].fn = "sendTransaction" =>
              \A j \in 1..(i - 1) :
                /\ calls[j].fn \in {"readContract", "fetch", "json", "approve"}
                /\ outcomes[j].kind = "resolved"
                /\ calls[j].fn = "fetch" => outcomes[j].value.ok
         /\ calls[i].fn = "waitForTransactionReceipt" =>
              /\ i > 1
              /\ calls[i - 1].fn = "sendTransaction"
              /\ outcomes[i - 1].kind = "resolved"
              /\ calls[i].hash = outcomes[i - 1].value
    /\ (Succeeded /\ result.msg.tag \in {"Deposited", "Redeemed", "Claimed"}) =>
         /\ calls # <<>>
         /\ calls[Len(calls)].fn = "waitForTransactionReceipt"
         /\ Len(outcomes) = Len(calls)
         /\ outcomes[Len(calls)].kind = "resolved"

\* C24: no retries: within an invocation no external call is made twice
\* (no two calls of the invocation are the same request, read, decode,
\* send or wait), and once a call has failed the invocation ends without
\* another call.
C24_NoRetries ==
  /\ \A i, j \in DOMAIN calls : i < j => calls[i] # calls[j]
  /\ \A i \in DOMAIN outcomes :
       outcomes[i].kind = "rejected" =>
         /\ pc = "done"
         /\ i = Len(outcomes)
         /\ Len(calls) <= Len(outcomes) + 1

C24_Witness ==
  /\ action = "getBalance"
  /\ rev = "wallet"
  /\ pc = "done"
  /\ Len(calls) = 4
  /\ outcomes[4].kind = "rejected"
  /\ calls[1].fn = "readContract"
  /\ calls[4].fn = "readContract"

UnsupportedChain ==
  IF rev = "wallet" THEN walletChainId \notin {"1", "146", "8453"}
  ELSE chainId \notin {1, 146, 8453}

\* C26: for an unsupported chain the configuration resolution fails before
\* any network call: an action whose chain id is outside 1, 146, 8453 makes
\* no backend request and no wallet call.
C26_NoCallOnUnsupportedChain ==
  (UnsupportedChain /\ action \in PublicActions) => calls = <<>>

\* the claim-proof request succeeded and its body decoded to a list
ProofListObtained ==
  /\ action = "claim"
  /\ ProofObtained
  /\ outcomes[2].value.array

\* what claim does once the proof list is at hand: one claim transaction
\* with all entries, and for an empty list the empty string after the
\* receipt
SendsClaimTransaction ==
  /\ Len(calls) >= 3
  /\ calls[3].fn = "sendTransaction"
  /\ calls[3].data.functionName = "claim"
  /\ Len(calls[3].data.args[1]) = Len(outcomes[2].value.items)
  /\ (Settled(3) /\ outcomes[3].kind = "resolved") =>
       /\ Len(calls) = 4
       /\ calls[4] = WaitForTransactionReceiptCall(outcomes[3].value)
  /\ (Settled(4) /\ outcomes[4].kind = "resolved"
      /\ outcomes[2].value.items = <<>>) =>
       /\ pc = "done"
       /\ result = Returned([tag |-> "Claimed", lines |-> <<>>])

C28_FirstEntryOnly ==
  (/\ action = "getBalance"
   /\ pc = "done"
   /\ locals.decoded
   /\ locals.claimRequests.array
   /\ Len(locals.claimRequests.items) > 1
   /\ result.kind = "returned"
   /\ result.msg.tag = "User balance from Yelay Vault ")
  => result.msg =
       balanceYieldMessage(args.vaultAddress, outcomes[1].value,
                           locals.claimRequests.items[1].yieldSharesTotal,
                           outcomes[4].value)

C28_Witness ==
  /\ action = "getBalance"
  /\ pc = "done"
  /\ locals.decoded
  /\ Len(locals.claimRequests.items) > 1
  /\ locals.claimRequests.items[1].yieldSharesTotal = "250"
  /\ locals.claimRequests.items[2].yieldSharesTotal = "100"
  /\ result.kind = "returned"
  /\ result.msg.tag = "User balance from Yelay Vault "
  /\ result.msg.generated = "250"

\* C29: a provider constructed for one chain answers supportsNetwork with
\* true for every supported evm chain, its own or not; and every backend
\* request and contract call of its actions uses the chain id, backend and
\* contract addresses fixed at construction, whatever chain the wallet is on.
ConstructedProvider == rev \in {"config", "list"}

C30_EventuallyReturns == (action # "none") ~> (pc = "done")

C30_Witness ==
  /\ rev = "wallet"
  /\ action = "getBalance"
  /\ pc = "done"
  /\ Len(calls) = 4
  /\ Len(outcomes) = 4
  /\ result.kind = "returned"

====
